---- MODULE Spec2Model ----
(***************************************************************************)
(* cancel-case-42.py: a one-shot maintenance script.  Each run reads       *)
(* DATABASE_URL, opens one connection, UPDATEs case 42, prints the row     *)
(* returned by RETURNING, INSERTs one activity_log row, commits, closes    *)
(* the cursor and the connection.  Any exception raised inside the try     *)
(* block goes to one blanket handler that prints "Error: <message>".       *)
(*                                                                         *)
(* The database is the environment of the script: a committed state        *)
(* (cases, activity_log), one transaction per connection whose writes      *)
(* stay private until commit, and the row lock an UPDATE takes on the row  *)
(* it changes (PostgreSQL, READ COMMITTED).  Runs are the processes        *)
(* 1..NumRuns; they may follow one another or overlap.                     *)
(***************************************************************************)
EXTENDS Integers, Sequences, FiniteSets, TLC

VARIABLES
    cases,          \* committed rows of table cases: id -> row
    activity_log,   \* committed rows of table activity_log, oldest first
    rowLock,        \* transaction holding the row lock on case 42, 0 if none
    pc,             \* pc[r]: the statement run r executes next
    DATABASE_URL,   \* DATABASE_URL[r]: what os.getenv returned (line 7)
    conn,           \* conn[r]: the connection handle "none" | "open" | "closed"
    cur,            \* cur[r]: the cursor handle "none" | "open" | "closed"
    txn,            \* txn[r]: the server-side transaction of r's connection
    rows,           \* rows[r]: result set held by the cursor after execute
    result,         \* result[r]: the value of fetchone(): None or a row
    exc,            \* exc[r]: message of the exception in flight
    stdout          \* stdout[r]: the lines r has printed

vars == <<cases, activity_log, rowLock, pc, DATABASE_URL, conn, cur, txn,
          rows, result, exc, stdout>>

----------------------------------------------------------------------------
(* Bounds *)

NumRuns == 2        \* runs of the script against the same database
MaxNameLen == 51    \* longest stored case_name
MaxTime == 1        \* values datetime.now() may return: 0..MaxTime

(* Program constants *)

TargetId == 42      \* WHERE id = 42 / case_id in the INSERT
NameLimit == 50     \* result[1][:50]

Runs == 1..NumRuns
Times == 0..MaxTime

----------------------------------------------------------------------------
(* Values *)

\* A nullable column or a Python Optional: None is the empty tuple, a
\* value v is the one-element tuple <<v>>.
None == << >>
Some(v) == <<v>>
IsNone(o) == Len(o) = 0
Val(o) == o[1]

Min(a, b) == IF a <= b THEN a ELSE b

\* Strings whose length matters are sequences of characters; the character
\* at position i depends on i so that different prefixes are different.
Chr(i) == IF i % 3 = 1 THEN "a" ELSE IF i % 3 = 2 THEN "b" ELSE "c"
Str(n) == [i \in 1..n |-> Chr(i)]

NameLens == {0, NameLimit - 1, NameLimit, MaxNameLen}
CaseNames == {None} \cup {Some(Str(n)) : n \in NameLens}

NewStatus == "sent"
CancelMsg == "Cancelled - Odessa account locked"
EventType == "portal_cancelled"
LogDescription == "Portal submission cancelled - Odessa account locked"

----------------------------------------------------------------------------
(* The database *)

CaseRow(name, status, url, lps, x) ==
    [case_name |-> name, status |-> status, portal_url |-> url,
     last_portal_status |-> lps, xmin |-> x]

LogRow(case_id, event_type, description, created_at, x) ==
    [case_id |-> case_id, event_type |-> event_type,
     description |-> description, created_at |-> created_at, xmin |-> x]

OtherId == 7

\* Case 42 as the script may find it: still waiting on the portal, or
\* already cancelled by an earlier correction; any case_name, NULL included.
PendingRow(name) ==
    CaseRow(name, "portal_in_progress", Some("https://portal.example/42"),
            Some("Submitted"), 0)
CancelledRow(name) == CaseRow(name, NewStatus, None, Some(CancelMsg), 0)
TargetRows == {PendingRow(n) : n \in CaseNames} \cup {CancelledRow(n) : n \in CaseNames}

OtherRow ==
    CaseRow(Some(Str(1)), "portal_in_progress", Some("https://portal.example/7"),
            Some("Submitted"), 0)
OldLogRow == LogRow(OtherId, "portal_submitted", "Submitted to portal", 0, 0)

InitialCases ==
    {[i \in {OtherId} |-> OtherRow]} \cup
    {[i \in {TargetId} |-> t] : t \in TargetRows} \cup
    {[i \in {OtherId, TargetId} |-> IF i = TargetId THEN t ELSE OtherRow] : t \in TargetRows}

NoTxn == [state |-> "none", updated |-> FALSE, inserted |-> << >>]

\* UPDATE cases SET status = %s, portal_url = NULL, last_portal_status = %s
\* WHERE id = 42: the row the statement writes for row `row` with id `id`.
UpdatedRow(id, row, x) ==
    IF id = TargetId
    THEN [row EXCEPT !.status = NewStatus, !.portal_url = None,
                     !.last_portal_status = Some(CancelMsg), !.xmin = x]
    ELSE row

\* RETURNING id, case_name, status: one tuple per row the UPDATE changed.
Returning(tbl, x) ==
    IF TargetId \in DOMAIN tbl
    THEN << <<TargetId, UpdatedRow(TargetId, tbl[TargetId], x).case_name,
              UpdatedRow(TargetId, tbl[TargetId], x).status>> >>
    ELSE << >>

\* INSERT INTO activity_log (case_id, event_type, description, created_at)
InsertedRow(now, x) == LogRow(TargetId, EventType, LogDescription, now, x)

\* Variant: the commit does not carry the UPDATE (it was issued on another
\* connection, which nobody commits).
CommitCasesSkip(tbl, t, r) == tbl

\* The committed tables once transaction t of run r commits.
CommitCases(tbl, t, r) ==
    IF t.updated THEN [i \in DOMAIN tbl |-> UpdatedRow(i, tbl[i], r)] ELSE tbl
CommitLog(log, t) == log \o t.inserted

\* The server ends an open transaction without committing it (the session
\* was closed, or the process went away): its writes are dropped.
EndSession(t) ==
    IF t.state \in {"active", "aborted"}
    THEN [state |-> "rolledback", updated |-> FALSE, inserted |-> << >>]
    ELSE t
Unlock(r) == IF rowLock = r THEN 0 ELSE rowLock

----------------------------------------------------------------------------
(* Output *)

\* Variant: the stop index taken as inclusive.
SliceInclusive(s, stop) == SubSeq(s, 1, Min(Len(s), stop + 1))

\* result[1][:50]: Python slicing clips the stop index to the length.
Slice(s, stop) == SubSeq(s, 1, Min(Len(s), stop))

UpdatedLine(id, name, status) ==
    [kind |-> "Case 42 updated", id |-> id, name |-> name, status |-> status,
     msg |-> ""]
TextLine(text) == [kind |-> text, id |-> 0, name |-> << >>, status |-> "", msg |-> ""]
ErrorLine(m) == [kind |-> "Error", id |-> 0, name |-> << >>, status |-> "", msg |-> m]
LoggedLine == TextLine("Activity logged for case 42")
SuccessLine == TextLine("Successfully cancelled case 42 portal submission")

MissingDsn == "missing dsn and no parameters"
ConnectError == "could not connect to server"
NotSubscriptable == "'NoneType' object is not subscriptable"
UpdateError == "UPDATE rejected by the server"
InsertError == "INSERT rejected by the server"
CommitError == "COMMIT rejected by the server"

----------------------------------------------------------------------------
Init ==
    /\ cases \in InitialCases
    /\ activity_log = IF OtherId \in DOMAIN cases THEN <<OldLogRow>> ELSE << >>
    /\ rowLock = 0
    /\ pc = [r \in Runs |-> "getenv"]
    /\ DATABASE_URL = [r \in Runs |-> None]
    /\ conn = [r \in Runs |-> "none"]
    /\ cur = [r \in Runs |-> "none"]
    /\ txn = [r \in Runs |-> NoTxn]
    /\ rows = [r \in Runs |-> << >>]
    /\ result = [r \in Runs |-> None]
    /\ exc = [r \in Runs |-> ""]
    /\ stdout = [r \in Runs |-> << >>]

\* An exception raised inside the try block: control goes to the handler.
Raise(r, m) ==
    /\ pc' = [pc EXCEPT ![r] = "except"]
    /\ exc' = [exc EXCEPT ![r] = m]

Goto(r, l) ==
    /\ pc' = [pc EXCEPT ![r] = l]
    /\ UNCHANGED exc

Echo(r, line) == stdout' = [stdout EXCEPT ![r] = Append(@, line)]

\* line 7: DATABASE_URL = os.getenv('DATABASE_URL')
GetEnv(r) ==
    /\ pc[r] = "getenv"
    /\ \E u \in {None, Some("postgres://unreachable"), Some("postgres://db")} :
          DATABASE_URL' = [DATABASE_URL EXCEPT ![r] = u]
    /\ Goto(r, "connect")
    /\ UNCHANGED <<cases, activity_log, rowLock, conn, cur, txn, rows, result, stdout>>

\* Variant: a missing DATABASE_URL falls back to the driver's default target
\* instead of raising.
ConnectDefault(r) ==
    /\ pc[r] = "connect"
    /\ IF ~IsNone(DATABASE_URL[r]) /\ Val(DATABASE_URL[r]) # "postgres://db"
       THEN Raise(r, ConnectError) /\ UNCHANGED conn
       ELSE Goto(r, "cursor") /\ conn' = [conn EXCEPT ![r] = "open"]
    /\ UNCHANGED <<cases, activity_log, rowLock, DATABASE_URL, cur, txn, rows, result, stdout>>

\* line 11: conn = psycopg2.connect(DATABASE_URL)
Connect(r) ==
    /\ pc[r] = "connect"
    /\ IF IsNone(DATABASE_URL[r])
       THEN Raise(r, MissingDsn) /\ UNCHANGED conn
       ELSE IF Val(DATABASE_URL[r]) # "postgres://db"
       THEN Raise(r, ConnectError) /\ UNCHANGED conn
       ELSE Goto(r, "cursor") /\ conn' = [conn EXCEPT ![r] = "open"]
    /\ UNCHANGED <<cases, activity_log, rowLock, DATABASE_URL, cur, txn, rows, result, stdout>>

\* line 12: cur = conn.cursor()
Cursor(r) ==
    /\ pc[r] = "cursor"
    /\ cur' = [cur EXCEPT ![r] = "open"]
    /\ Goto(r, "update")
    /\ UNCHANGED <<cases, activity_log, rowLock, DATABASE_URL, conn, txn, rows, result, stdout>>

\* Variant: the connection is in autocommit mode, the UPDATE is committed on
\* its own as soon as it is executed.
UpdateAutocommit(r) ==
    /\ pc[r] = "update"
    /\ TargetId \in DOMAIN cases => rowLock = 0
    /\ cases' = [i \in DOMAIN cases |-> UpdatedRow(i, cases[i], r)]
    /\ txn' = [txn EXCEPT ![r] = [state |-> "active", updated |-> FALSE,
                                  inserted |-> << >>]]
    /\ rows' = [rows EXCEPT ![r] = Returning(cases, r)]
    /\ Goto(r, "fetch")
    /\ UNCHANGED <<activity_log, rowLock, DATABASE_URL, conn, cur, result, stdout>>

\* lines 15-20: cur.execute(UPDATE ... WHERE id = 42 RETURNING ...).  The
\* statement opens the transaction; it waits while another transaction holds
\* the lock on the row, then locks the row and writes it in its own snapshot.
Update(r) ==
    /\ pc[r] = "update"
    /\ TargetId \in DOMAIN cases => rowLock = 0
    /\ rowLock' = IF TargetId \in DOMAIN cases THEN r ELSE rowLock
    /\ txn' = [txn EXCEPT ![r] = [state |-> "active",
                                  updated |-> TargetId \in DOMAIN cases,
                                  inserted |-> << >>]]
    /\ rows' = [rows EXCEPT ![r] = Returning(cases, r)]
    /\ Goto(r, "fetch")
    /\ UNCHANGED <<cases, activity_log, DATABASE_URL, conn, cur, result, stdout>>

\* lines 15-20, the server rejects the UPDATE: the transaction is aborted
\* and execute raises.
UpdateFail(r) ==
    /\ pc[r] = "update"
    /\ txn' = [txn EXCEPT ![r] = [NoTxn EXCEPT !.state = "aborted"]]
    /\ Raise(r, UpdateError)
    /\ UNCHANGED <<cases, activity_log, rowLock, DATABASE_URL, conn, cur, rows, result, stdout>>

\* line 22: result = cur.fetchone()
Fetch(r) ==
    /\ pc[r] = "fetch"
    /\ result' = [result EXCEPT ![r] =
                    IF rows[r] = << >> THEN None ELSE Some(Head(rows[r]))]
    /\ rows' = [rows EXCEPT ![r] = IF rows[r] = << >> THEN << >> ELSE Tail(rows[r])]
    /\ Goto(r, "print1")
    /\ UNCHANGED <<cases, activity_log, rowLock, DATABASE_URL, conn, cur, txn, stdout>>

\* Variant: the confirmation line is skipped when there is nothing to print,
\* and the run goes on.
Print1Unchecked(r) ==
    /\ pc[r] = "print1"
    /\ IF IsNone(result[r]) \/ IsNone(Val(result[r])[2])
       THEN UNCHANGED stdout
       ELSE Echo(r, UpdatedLine(Val(result[r])[1],
                                Slice(Val(Val(result[r])[2]), NameLimit),
                                Val(result[r])[3]))
    /\ Goto(r, "insert")
    /\ UNCHANGED <<cases, activity_log, rowLock, DATABASE_URL, conn, cur, txn, rows, result>>

\* line 23: print(f"Case 42 updated: ID={result[0]}, Name={result[1][:50]},
\* Status={result[2]}"): subscripting None raises TypeError.
Print1(r) ==
    /\ pc[r] = "print1"
    /\ IF IsNone(result[r]) \/ IsNone(Val(result[r])[2])
       THEN Raise(r, NotSubscriptable) /\ UNCHANGED stdout
       ELSE /\ Echo(r, UpdatedLine(Val(result[r])[1],
                                   Slice(Val(Val(result[r])[2]), NameLimit),
                                   Val(result[r])[3]))
            /\ Goto(r, "insert")
    /\ UNCHANGED <<cases, activity_log, rowLock, DATABASE_URL, conn, cur, txn, rows, result>>

\* Variant: the INSERT is executed twice.
InsertTwice(r) ==
    /\ pc[r] = "insert"
    /\ \E now \in Times :
          txn' = [txn EXCEPT ![r].inserted =
                     Append(Append(@, InsertedRow(now, r)), InsertedRow(now, r))]
    /\ Goto(r, "commit")
    /\ UNCHANGED <<cases, activity_log, rowLock, DATABASE_URL, conn, cur, rows, result, stdout>>

\* lines 26-29: cur.execute(INSERT INTO activity_log ...), datetime.now()
Insert(r) ==
    /\ pc[r] = "insert"
    /\ \E now \in Times :
          txn' = [txn EXCEPT ![r].inserted = Append(@, InsertedRow(now, r))]
    /\ Goto(r, "commit")
    /\ UNCHANGED <<cases, activity_log, rowLock, DATABASE_URL, conn, cur, rows, result, stdout>>

\* lines 26-29, the server rejects the INSERT (a constraint of the table).
InsertFail(r) ==
    /\ pc[r] = "insert"
    /\ txn' = [txn EXCEPT ![r].state = "aborted"]
    /\ Raise(r, InsertError)
    /\ UNCHANGED <<cases, activity_log, rowLock, DATABASE_URL, conn, cur, rows, result, stdout>>

\* line 31: conn.commit()
Commit(r) ==
    /\ pc[r] = "commit"
    /\ cases' = CommitCases(cases, txn[r], r)
    /\ activity_log' = CommitLog(activity_log, txn[r])
    /\ rowLock' = Unlock(r)
    /\ txn' = [txn EXCEPT ![r].state = "committed"]
    /\ Goto(r, "print2")
    /\ UNCHANGED <<DATABASE_URL, conn, cur, rows, result, stdout>>

\* line 31, the commit fails: the server rolls the transaction back.
CommitFail(r) ==
    /\ pc[r] = "commit"
    /\ txn' = [txn EXCEPT ![r] = EndSession(@)]
    /\ rowLock' = Unlock(r)
    /\ Raise(r, CommitError)
    /\ UNCHANGED <<cases, activity_log, DATABASE_URL, conn, cur, rows, result, stdout>>

\* line 32: print("Activity logged for case 42")
Print2(r) ==
    /\ pc[r] = "print2"
    /\ Echo(r, LoggedLine)
    /\ Goto(r, "curclose")
    /\ UNCHANGED <<cases, activity_log, rowLock, DATABASE_URL, conn, cur, txn, rows, result>>

\* line 34: cur.close()
CurClose(r) ==
    /\ pc[r] = "curclose"
    /\ cur' = [cur EXCEPT ![r] = "closed"]
    /\ rows' = [rows EXCEPT ![r] = << >>]
    /\ Goto(r, "connclose")
    /\ UNCHANGED <<cases, activity_log, rowLock, DATABASE_URL, conn, txn, result, stdout>>

\* line 35: conn.close()
ConnClose(r) ==
    /\ pc[r] = "connclose"
    /\ conn' = [conn EXCEPT ![r] = "closed"]
    /\ txn' = [txn EXCEPT ![r] = EndSession(@)]
    /\ rowLock' = Unlock(r)
    /\ Goto(r, "print3")
    /\ UNCHANGED <<cases, activity_log, DATABASE_URL, cur, rows, result, stdout>>

\* line 36: print("Successfully cancelled case 42 portal submission")
Print3(r) ==
    /\ pc[r] = "print3"
    /\ Echo(r, SuccessLine)
    /\ Goto(r, "end")
    /\ UNCHANGED <<cases, activity_log, rowLock, DATABASE_URL, conn, cur, txn, rows, result>>

\* Variant: the handler swallows the exception without printing.
ExceptSilent(r) ==
    /\ pc[r] = "except"
    /\ Goto(r, "end")
    /\ UNCHANGED <<cases, activity_log, rowLock, DATABASE_URL, conn, cur, txn, rows, result, stdout>>

\* Variant: the handler releases the cursor and the connection after
\* printing, as a finally clause would.
ExceptClosing(r) ==
    /\ pc[r] = "except"
    /\ Echo(r, ErrorLine(exc[r]))
    /\ cur' = [cur EXCEPT ![r] = IF @ = "open" THEN "closed" ELSE @]
    /\ conn' = [conn EXCEPT ![r] = IF @ = "open" THEN "closed" ELSE @]
    /\ txn' = [txn EXCEPT ![r] = EndSession(@)]
    /\ rowLock' = Unlock(r)
    /\ Goto(r, "end")
    /\ UNCHANGED <<cases, activity_log, DATABASE_URL, rows, result>>

\* lines 38-39: except Exception as e: print(f"Error: {e}")
Except(r) ==
    /\ pc[r] = "except"
    /\ Echo(r, ErrorLine(exc[r]))
    /\ Goto(r, "end")
    /\ UNCHANGED <<cases, activity_log, rowLock, DATABASE_URL, conn, cur, txn, rows, result>>

\* End of the script: the process exits.  A connection the script left open
\* goes away with the process, and the server ends its session.
Exit(r) ==
    /\ pc[r] = "end"
    /\ txn' = [txn EXCEPT ![r] = EndSession(@)]
    /\ rowLock' = Unlock(r)
    /\ Goto(r, "exited")
    /\ UNCHANGED <<cases, activity_log, DATABASE_URL, conn, cur, rows, result, stdout>>

Next ==
    \E r \in Runs :
        \/ GetEnv(r)
        \/ Connect(r)
        \/ Cursor(r)
        \/ Update(r)
        \/ UpdateFail(r)
        \/ Fetch(r)
        \/ Print1(r)
        \/ Insert(r)
        \/ InsertFail(r)
        \/ Commit(r)
        \/ CommitFail(r)
        \/ Print2(r)
        \/ CurClose(r)
        \/ ConnClose(r)
        \/ Print3(r)
        \/ Except(r)
        \/ Exit(r)

Spec == Init /\ [][Next]_vars

----------------------------------------------------------------------------
(* Vocabulary of the properties *)

HasTarget == TargetId \in DOMAIN cases
Ended(r) == pc[r] \in {"end", "exited"}
Committed(r) == txn[r].state = "committed"
Connected(r) == conn[r] # "none"
LogRowsOf(r) == {i \in DOMAIN activity_log : activity_log[i].xmin = r}
NewLogRows == {i \in DOMAIN activity_log : activity_log[i].xmin \in Runs}
IsCancelled(row) ==
    /\ row.status = NewStatus
    /\ row.portal_url = None
    /\ row.last_portal_status = Some(CancelMsg)
Last(s) == s[Len(s)]
Front(s) == SubSeq(s, 1, Len(s) - 1)
IsError(line) == line.kind = "Error"
Failed(r) == stdout[r] # << >> /\ IsError(Last(stdout[r]))
Succeeded(r) == stdout[r] # << >> /\ Last(stdout[r]) = SuccessLine
IsPrefix(s, t) == Len(s) <= Len(t) /\ SubSeq(t, 1, Len(s)) = s
ServerErrors == {UpdateError, InsertError, CommitError}

----------------------------------------------------------------------------
(* C1 *)

\* C1: whenever the case table holds a row with id 42, whatever its other
\* columns, a run that reached the database and met no rejection by the
\* server ends with that row committed as status 'sent', portal_url NULL and
\* last_portal_status 'Cancelled - Odessa account locked', and every other
\* case row is unchanged.
C1_RowCancelledAfterRun ==
    /\ \A r \in Runs :
          (HasTarget /\ pc[r] = "exited" /\ Connected(r) /\ exc[r] \notin ServerErrors)
              => IsCancelled(cases[TargetId])
    /\ OtherId \in DOMAIN cases => cases[OtherId] = OtherRow

----------------------------------------------------------------------------
(* C8 *)

\* C8: the name in a printed confirmation line is the prefix of the stored
\* case_name of length min(len(name), 50): at most 50 characters, and the
\* whole name when it has 50 characters or fewer.
C8_NameTruncated ==
    \A r \in Runs : \A i \in DOMAIN stdout[r] :
        stdout[r][i].kind = "Case 42 updated" =>
            LET stored == Val(cases[TargetId].case_name)
                shown == stdout[r][i].name
            IN  /\ Len(shown) <= 50
                /\ Len(shown) = Min(Len(stored), 50)
                /\ \A j \in 1..Len(shown) : shown[j] = stored[j]
                /\ Len(stored) <= 50 => shown = stored

C8_Witness ==
    \E r \in Runs :
        /\ stdout[r] # << >>
        /\ stdout[r][1].kind = "Case 42 updated"
        /\ Len(Val(cases[TargetId].case_name)) > 50
        /\ Len(stdout[r][1].name) = 50

----------------------------------------------------------------------------
(* C3 *)

\* The one database of InitialCases without a row 42.
NoTargetCases == [i \in {OtherId} |-> OtherRow]

\* C3: when the case table has no row with id 42, a run never executes the
\* INSERT and never commits, a run that ends has printed an error line, and
\* the committed tables stay what they were before the runs.
C3_MissingRowNoCommit ==
    ~HasTarget =>
        /\ cases = NoTargetCases
        /\ activity_log = <<OldLogRow>>
        /\ \A r \in Runs :
              /\ txn[r].inserted = << >>
              /\ ~Committed(r)
              /\ pc[r] \notin {"insert", "commit", "print2", "curclose", "connclose", "print3"}
              /\ Ended(r) => \E m \in {MissingDsn, ConnectError, UpdateError, NotSubscriptable} :
                                stdout[r] = <<ErrorLine(m)>>

C3_Witness ==
    /\ ~HasTarget
    /\ \E r \in Runs :
          /\ pc[r] = "exited"
          /\ txn[r].state = "rolledback"
          /\ IsNone(result[r])
          /\ stdout[r] = <<ErrorLine(NotSubscriptable)>>

----------------------------------------------------------------------------
(* C4 *)

\* C4: a run whose DATABASE_URL is unset, or whose connection cannot be
\* established, goes to the handler without a connection: it issues no
\* UPDATE, no INSERT and no commit, nothing of it reaches the committed
\* tables, and it ends having printed one error line.
C4_NoConnectionNoMutation ==
    \A r \in Runs :
        (pc[r] # "getenv" /\ DATABASE_URL[r] # Some("postgres://db")) =>
            /\ pc[r] \in {"connect", "except", "end", "exited"}
            /\ conn[r] = "none" /\ cur[r] = "none"
            /\ txn[r] = NoTxn
            /\ rowLock # r
            /\ LogRowsOf(r) = {}
            /\ HasTarget => cases[TargetId].xmin # r
            /\ Ended(r) => stdout[r] = <<ErrorLine(IF IsNone(DATABASE_URL[r])
                                                    THEN MissingDsn ELSE ConnectError)>>

C4_Witness ==
    \E r, q \in Runs :
        /\ pc[r] = "exited" /\ IsNone(DATABASE_URL[r])
        /\ stdout[r] = <<ErrorLine(MissingDsn)>>
        /\ pc[q] = "exited" /\ DATABASE_URL[q] = Some("postgres://unreachable")
        /\ stdout[q] = <<ErrorLine(ConnectError)>>
        /\ HasTarget /\ ~IsCancelled(cases[TargetId])

----------------------------------------------------------------------------
(* C2 *)

\* The row a successful run leaves in the activity log.
IsCancelLogRow(row) == row.case_id = 42 /\ row.event_type = "portal_cancelled"

C2_OneRowPerRun ==
    \A r \in Runs :
        /\ Cardinality(LogRowsOf(r)) = (IF Committed(r) THEN 1 ELSE 0)
        /\ Succeeded(r) => Committed(r)
        /\ \A i \in LogRowsOf(r) : IsCancelLogRow(activity_log[i])

C2_AppendStep ==
    \/ activity_log' = activity_log
    \/ /\ Len(activity_log') = Len(activity_log) + 1
       /\ SubSeq(activity_log', 1, Len(activity_log)) = activity_log
       /\ IsCancelLogRow(Last(activity_log'))
       /\ \E r \in Runs : pc[r] = "commit" /\ pc'[r] = "print2"

\* C2: each successful run appends exactly one row to the activity log, with
\* case_id 42 and event_type 'portal_cancelled'; no step updates or deletes an
\* existing log row, so N successful runs leave exactly N more rows (two runs,
\* two rows).
C2_LogAppendOnly == []C2_OneRowPerRun /\ [][C2_AppendStep]_vars

C2_Witness ==
    \E r, q \in Runs :
        /\ r # q /\ pc[r] = "exited" /\ pc[q] = "exited"
        /\ Succeeded(r) /\ Succeeded(q)
        /\ Len(activity_log) = 3
        /\ activity_log[1] = OldLogRow
        /\ activity_log[2].xmin = r /\ activity_log[3].xmin = q
        /\ [activity_log[2] EXCEPT !.xmin = 0] = [activity_log[3] EXCEPT !.xmin = 0]

----------------------------------------------------------------------------
(* C5 *)

\* No trace of an uncommitted transaction in the committed tables.
C5_NothingBeforeCommit ==
    \A r \in Runs :
        ~Committed(r) =>
            /\ LogRowsOf(r) = {}
            /\ HasTarget => cases[TargetId].xmin # r

\* A run that raised never commits.
C5_RaisedNeverCommits ==
    \A r \in Runs : (pc[r] = "except" \/ Failed(r)) => ~Committed(r)

\* The UPDATE of run r and its log row become visible in the same step.
C5_TogetherStep ==
    \A r \in Runs :
        (HasTarget /\ cases[TargetId].xmin # r /\ cases'[TargetId].xmin = r)
            <=> (LogRowsOf(r) = {} /\ activity_log' # activity_log
                 /\ Last(activity_log').xmin = r)

\* C5: the UPDATE of case 42 and the INSERT of the audit row are committed as
\* one transaction: the committed tables show a run's change to case 42 if and
\* only if they show its log row, and a run in which a step before the commit
\* failed (the INSERT, after the UPDATE succeeded) never commits either.
C5_SingleTransaction ==
    /\ [](C5_NothingBeforeCommit /\ C5_RaisedNeverCommits)
    /\ [][C5_TogetherStep]_vars

C5_Witness ==
    \E r, q \in Runs :
        /\ pc[r] = "exited" /\ exc[r] = InsertError
        /\ stdout[r] # << >> /\ stdout[r][1].kind = "Case 42 updated"
        /\ LogRowsOf(r) = {}
        /\ Committed(q)
        /\ cases[TargetId].xmin = q
        /\ Cardinality(LogRowsOf(q)) = 1

----------------------------------------------------------------------------
(* C6 *)

\* The three lines of a successful run, in their order.
SuccessLines ==
    IF HasTarget /\ ~IsNone(cases[TargetId].case_name)
    THEN <<UpdatedLine(42, Slice(Val(cases[TargetId].case_name), 50), "sent"),
           LoggedLine, SuccessLine>>
    ELSE << >>

\* C6: the output of a run is either exactly the three success lines, or a
\* single 'Error: <message>' line; no run prints both a success-path line and
\* an error line.
C6_ThreeLinesOrOneError ==
    \A r \in Runs :
        /\ Ended(r) => \/ stdout[r] # << >> /\ stdout[r] = SuccessLines
                       \/ Len(stdout[r]) = 1 /\ IsError(stdout[r][1])
        /\ ~(\E i, j \in DOMAIN stdout[r] : IsError(stdout[r][i]) /\ ~IsError(stdout[r][j]))

\* C6 as amended: the output of a run is the success lines in their fixed
\* order, cut short by a single error line when a step fails.  A run that
\* ends has printed all three success lines and no error line, or an error
\* line as its last line, after the case-updated line exactly when the step
\* that failed came after that print (the INSERT or the commit), and after
\* nothing otherwise.
C6_SuccessPrefixThenError ==
    \A r \in Runs :
        /\ \/ IsPrefix(stdout[r], SuccessLines)
           \/ Failed(r) /\ IsPrefix(Front(stdout[r]), SuccessLines)
        /\ Ended(r) =>
              \/ stdout[r] # << >> /\ stdout[r] = SuccessLines /\ Committed(r)
              \/ /\ Failed(r) /\ ~Committed(r)
                 /\ Last(stdout[r]) = ErrorLine(exc[r])
                 /\ Len(stdout[r]) = (IF exc[r] \in {InsertError, CommitError} THEN 2 ELSE 1)

C6_Witness ==
    \E r \in Runs :
        /\ pc[r] = "exited"
        /\ Len(stdout[r]) = 2
        /\ stdout[r][1] = SuccessLines[1]
        /\ stdout[r][2] = ErrorLine(InsertError)

----------------------------------------------------------------------------
(* C7 *)

\* C7: a run that opened a connection and reached its normal exit, by the
\* success path or by the handler, has closed its cursor and its connection
\* before the exit, and a close comes after the two confirmation lines and
\* the commit.
C7_ReleasedBeforeExit ==
    \A r \in Runs :
        /\ (pc[r] = "exited" /\ Connected(r)) => (cur[r] = "closed" /\ conn[r] = "closed")
        /\ cur[r] = "closed" => (Committed(r) /\ Len(stdout[r]) >= 2
                                  /\ stdout[r][2] = LoggedLine)

----------------------------------------------------------------------------
(* C10 *)

\* C10: when the handler finishes in a run that had opened its connection,
\* the cursor and the connection are still open and the transaction was not
\* rolled back by the script (it is still pending on the server, unless the
\* server itself ended it when the commit failed); the final success line is
\* printed only after commit, cursor close and connection close.
C10_ClosedOnSuccessOnly ==
    \A r \in Runs :
        /\ (pc[r] = "end" /\ Failed(r) /\ Connected(r)) =>
              /\ conn[r] = "open" /\ cur[r] = "open"
              /\ exc[r] # CommitError => txn[r].state \in {"active", "aborted"}
              /\ (exc[r] \in {InsertError, NotSubscriptable} /\ HasTarget) => rowLock = r
        /\ (conn[r] = "closed" \/ cur[r] = "closed") => ~Failed(r) /\ pc[r] # "except"
        /\ SuccessLine \in {stdout[r][i] : i \in DOMAIN stdout[r]} =>
              Committed(r) /\ cur[r] = "closed" /\ conn[r] = "closed"

C10_Witness ==
    \E r \in Runs :
        /\ pc[r] = "end" /\ Failed(r)
        /\ conn[r] = "open" /\ cur[r] = "open"
        /\ txn[r].state = "aborted" /\ rowLock = r
        /\ \E q \in Runs : pc[q] = "end" /\ Succeeded(q) /\ conn[q] = "closed"

----------------------------------------------------------------------------
(* C9 *)

\* C9: for runs that overlap on a database holding row 42, under every
\* interleaving: each run that commits contributes exactly one log row; the
\* committed tables never show a log row of a run without the cancellation of
\* case 42; once every run has committed, row 42 holds the values a single
\* run leaves (its case_name kept) and the log holds one new row per run.
C9_ConcurrentRuns ==
    HasTarget =>
        /\ \A r \in Runs : Committed(r) => Cardinality(LogRowsOf(r)) = 1
        /\ \A r \in Runs : LogRowsOf(r) # {} =>
              /\ IsCancelled(cases[TargetId])
              /\ cases[TargetId].xmin \in {q \in Runs : Committed(q)}
        /\ (\A r \in Runs : Committed(r)) =>
              /\ \E n \in CaseNames :
                    cases[TargetId] = [CancelledRow(n) EXCEPT !.xmin = cases[TargetId].xmin]
              /\ Cardinality(NewLogRows) = NumRuns
              /\ Len(activity_log) = NumRuns + (IF OtherId \in DOMAIN cases THEN 1 ELSE 0)

C9_Witness ==
    \E r, q \in Runs :
        /\ r # q
        /\ Committed(r) /\ pc[r] = "print2" /\ conn[r] = "open"
        /\ pc[q] = "commit" /\ rowLock = q /\ txn[q].state = "active"
        /\ Cardinality(LogRowsOf(r)) = 1 /\ LogRowsOf(q) = {}
        /\ cases[TargetId].xmin = r

====
